---- MODULE Spec2Model ----
(***************************************************************************)
(* Tool pipeline of the chat assistant: the summarizeUrl tool              *)
(* (fetch -> content-type check -> tag stripping -> model summarisation)   *)
(* and the translateText tool (model translation with result checks).      *)
(*                                                                         *)
(* One tool execution is modelled step by step: every await of the source  *)
(* (fetch, response.text(), generateText) is a position of the execution,  *)
(* and the outcome of the awaited call is chosen by the environment.       *)
(*                                                                         *)
(* JavaScript strings that the code scans (page bodies, texts to           *)
(* translate, model texts) are run-length encoded: a string is a sequence  *)
(* of runs [c |-> character, n |-> repetitions], adjacent runs carrying    *)
(* different characters and n >= 1.  The encoding is one-to-one, so string *)
(* equality is equality of encodings, and it lets page texts be longer     *)
(* than the 4000-character prompt limit.  Messages the code assembles with *)
(* template literals are TLA+ strings built with \o.                       *)
(***************************************************************************)
EXTENDS Integers, Sequences, FiniteSets, TLC

(***************************************************************************)
(* Bounds of the model                                                     *)
(***************************************************************************)
\* longest page body, in runs
MaxRuns == 3
\* longest text to translate and longest model text, in runs
MaxTextRuns == 2
\* most tool calls of one assistant turn
MaxCalls == 2

(***************************************************************************)
(* Program constants                                                       *)
(***************************************************************************)
\* textContent.substring(0, 4000)
PromptLimit == 4000

(***************************************************************************)
(* Run-length encoded strings                                              *)
(***************************************************************************)
Run(ch, k) == [c |-> ch, n |-> k]

EmptyStr == <<>>

\* s.length
RECURSIVE StrLen(_)
StrLen(s) == IF s = <<>> THEN 0 ELSE Head(s).n + StrLen(Tail(s))

\* canonical form: no empty run, no two adjacent runs of one character
RECURSIVE Norm(_)
Norm(s) ==
  IF s = <<>> THEN <<>>
  ELSE IF Head(s).n = 0 THEN Norm(Tail(s))
  ELSE LET rest == Norm(Tail(s)) IN
       IF rest # <<>> /\ Head(rest).c = Head(s).c
       THEN <<Run(Head(s).c, Head(s).n + Head(rest).n)>> \o Tail(rest)
       ELSE <<Head(s)>> \o rest

\* all canonical strings of at most maxRuns runs
RECURSIVE StringsOf(_, _, _)
StringsOf(alphabet, lens, maxRuns) ==
  IF maxRuns = 0 THEN {<<>>}
  ELSE LET shorter == StringsOf(alphabet, lens, maxRuns - 1) IN
       shorter \cup
       UNION { { <<Run(ch, k)>> \o s :
                   k \in lens,
                   s \in { t \in shorter : t = <<>> \/ Head(t).c # ch } } :
               ch \in alphabet }

\* the first k characters of s
RECURSIVE Take(_, _)
Take(s, k) ==
  IF s = <<>> \/ k <= 0 THEN <<>>
  ELSE IF Head(s).n >= k THEN <<Run(Head(s).c, k)>>
  ELSE <<Head(s)>> \o Take(Tail(s), k - Head(s).n)

\* s without its first k characters
RECURSIVE Drop(_, _)
Drop(s, k) ==
  IF s = <<>> \/ k <= 0 THEN s
  ELSE IF Head(s).n > k THEN <<Run(Head(s).c, Head(s).n - k)>> \o Tail(s)
  ELSE Drop(Tail(s), k - Head(s).n)

\* String.prototype.substring(start, end): arguments are clamped to
\* [0, length] and swapped when start > end
Clamp(i, len) == IF i < 0 THEN 0 ELSE IF i > len THEN len ELSE i

Substring(s, start, end) ==
  LET a  == Clamp(start, StrLen(s))
      b  == Clamp(end, StrLen(s))
      lo == IF a <= b THEN a ELSE b
      hi == IF a <= b THEN b ELSE a
  IN Take(Drop(s, lo), hi - lo)

\* the characters String.prototype.trim() removes, among those of the model
WhiteSpace == {" ", "\n"}

RECURSIVE TrimStart(_)
TrimStart(s) ==
  IF s = <<>> THEN <<>>
  ELSE IF Head(s).c \in WhiteSpace THEN TrimStart(Tail(s))
  ELSE s

RECURSIVE TrimEnd(_)
TrimEnd(s) ==
  IF s = <<>> THEN <<>>
  ELSE IF s[Len(s)].c \in WhiteSpace THEN TrimEnd(SubSeq(s, 1, Len(s) - 1))
  ELSE s

\* String.prototype.trim()
Trim(s) == TrimEnd(TrimStart(s))

\* String.prototype.toLowerCase(), on the letters of the model
LowerChar(ch) == IF ch = "A" THEN "a" ELSE IF ch = "B" THEN "b" ELSE ch

ToLowerCase(s) == Norm([i \in 1..Len(s) |-> Run(LowerChar(s[i].c), s[i].n)])

\* s holds a character trim() would keep
HasNonWhiteSpace(s) == \E i \in 1..Len(s) : s[i].c \notin WhiteSpace

(***************************************************************************)
(* JavaScript values that cross the tool boundary                          *)
(***************************************************************************)
\* a string value, undefined, and null
JsString(s) == [type |-> "string", val |-> s]
JsUndefined == [type |-> "undefined"]
JsNull == [type |-> "null"]

\* a thrown value: an Error carrying a message, or any other value
ErrorOf(m) == [isError |-> TRUE, message |-> m]
NonError == [isError |-> FALSE, message |-> "non-error"]

\* the TypeError the engine throws on a property read of null / undefined
NullReadTypeError == ErrorOf("Cannot read properties of null")

\* a promise that was not created, is pending, or has settled
NoPromise == [state |-> "none"]
PendingPromise == [state |-> "pending"]
Fulfilled(v) == [state |-> "fulfilled", value |-> v]
Rejected(e) == [state |-> "rejected", reason |-> e]

\* a header value as a sequence of tokens; get() yields null when the header
\* is absent
HeaderValue(toks) == [kind |-> "value", isNull |-> FALSE, tokens |-> toks]
HeaderNull == [kind |-> "value", isNull |-> TRUE, tokens |-> <<>>]
HeaderThrows(e) == [kind |-> "throws", reason |-> e]

\* the text of a header value, as a template literal prints it
RECURSIVE Join(_)
Join(toks) == IF toks = <<>> THEN "" ELSE Head(toks) \o Join(Tail(toks))

\* contentType.includes(tok), on token boundaries
Includes(h, tok) == \E i \in 1..Len(h.tokens) : h.tokens[i] = tok

\* truthiness of a header value: null and "" are falsy
HeaderTruthy(h) == ~h.isNull /\ h.tokens # <<>>

\* truthiness of a string-or-undefined value
Truthy(v) == v.type = "string" /\ v.val # EmptyStr

(***************************************************************************)
(* What the environment can answer                                         *)
(***************************************************************************)
Urls == {"https://example.com/article"}

ErrorMessages == {"Network connection failed", "AI model error"}

Thrown == {ErrorOf(m) : m \in ErrorMessages} \cup {NonError}

Statuses == {200, 204, 404, 500}

ContentTypes ==
  { HeaderNull,
    HeaderValue(<<>>),
    HeaderValue(<<"text/html">>),
    HeaderValue(<<"text/html", "; charset=utf-8">>),
    HeaderValue(<<"application/json">>) }

HeaderReads == ContentTypes \cup {HeaderThrows(e) : e \in Thrown}

\* response.ok is true exactly for the statuses 200..299
Responses ==
  { [status |-> st, ok |-> (st >= 200 /\ st <= 299), header |-> h] :
      st \in Statuses, h \in HeaderReads }

PageAlphabet == {"<", ">", " ", "a"}
RunLens == {1, PromptLimit}
Bodies == StringsOf(PageAlphabet, RunLens, MaxRuns)

TextAlphabet == {"a", "A", " "}
Texts == StringsOf(TextAlphabet, {1}, MaxTextRuns)

Languages == {"en", "es", "fr"}

FinishReasons == {"stop", "length", "content-filter"}

Summaries == {EmptyStr, <<Run("a", 1)>>}

\* generateText as summarizeUrl sees it: a bare string, an object with or
\* without a text, or null
SummaryResults ==
  {JsString(s) : s \in Summaries}
    \cup {[type |-> "object", text |-> t] :
            t \in {JsString(s) : s \in Summaries} \cup {JsUndefined}}
    \cup {JsNull}

\* generateText as translateText sees it: {text, finishReason} or null
TranslationResults ==
  {[type |-> "object", text |-> t, finishReason |-> r] :
      t \in {JsString(s) : s \in Texts} \cup {JsUndefined},
      r \in FinishReasons}
    \cup {JsNull}

(***************************************************************************)
(* State: the execution that currently runs on the event loop, and the     *)
(* conversation turn around it                                             *)
(***************************************************************************)
VARIABLES
  tool,        \* the tool whose execute is running
  args,        \* the validated input of execute
  pc,          \* position of execute: "start", an await, or "done"
  fetchP,      \* the promise of fetch(url)
  textP,       \* the promise of response.text()
  modelP,      \* the promise of generateText(...)
  fetchCalls,  \* the urls fetch was called with, in order
  modelCalls,  \* the prompts generateText was called with, in order
  outcome,     \* "pending", "returned" or "rejected": how execute settled
  result       \* the value execute returned (or the value it rejected with)

VARIABLES
  cur,                \* the call whose execution holds the variables above; 0 if none
  parked,             \* the executions suspended at an await, by call id
  invocations,        \* the tool invocation of each call id
  stream,             \* the tool-invocation parts sent to the client, in order
  views,              \* what the client rendered for each call id
  selectedLanguage,   \* LanguageProvider: the current selection
  availableLanguages  \* LanguageProvider: the selectable languages

\* the variables of the running execution
execVars == <<tool, args, pc, fetchP, textP, modelP, fetchCalls, modelCalls,
              outcome, result>>

\* the variables of the turn
turnVars == <<cur, parked, invocations, stream, views, selectedLanguage,
              availableLanguages>>

vars == <<execVars, turnVars>>

NoResult == [state |-> "pending"]

(***************************************************************************)
(* summarizeUrl                                                            *)
(***************************************************************************)
\* html.replace(/<[^>]*>?/gm, ''): a match opens at a "<" outside a match,
\* runs over every character that is not ">", and takes one ">" if there
\* is one; inTag tells whether the scan is inside a match
RECURSIVE StripFrom(_, _)
StripFrom(s, inTag) ==
  IF s = <<>> THEN <<>>
  ELSE IF inTag
       THEN IF Head(s).c = ">"
            THEN <<Run(">", Head(s).n - 1)>> \o StripFrom(Tail(s), FALSE)
            ELSE StripFrom(Tail(s), TRUE)
       ELSE IF Head(s).c = "<"
            THEN StripFrom(Tail(s), TRUE)
            ELSE <<Head(s)>> \o StripFrom(Tail(s), FALSE)

stripHtmlTags(html) == Norm(StripFrom(html, FALSE))

\* FetchCatch with the instanceof test lost: every failure is "unknown"
FetchCatch_NoMessage(error) ==
  [error |-> "Unknown network error when fetching the page."]

\* the catch of the fetch block
FetchCatch(error) ==
  IF error.isError
  THEN [error |-> "Network error when fetching the page: " \o error.message]
  ELSE [error |-> "Unknown network error when fetching the page."]

\* the catch of the summarisation block
SummarizeCatch(error) ==
  IF error.isError
  THEN [error |-> "AI summarization failed: " \o error.message]
  ELSE [error |-> "Unknown error during AI summarization."]

\* HttpStatusError without the interpolated status
HttpStatusError_NoCode(status) ==
  [error |-> "Failed to fetch page: HTTP status"]

HttpStatusError(status) ==
  [error |-> "Failed to fetch page: HTTP status " \o ToString(status)]

ContentTypeError(contentType) ==
  [error |-> "Content is not HTML (type: " \o Join(contentType.tokens)
               \o "). Cannot summarize."]

NoTextError == [error |-> "No text content found on the page to summarize."]

\* contentType && !contentType.includes('text/html')
IsNotHtml(contentType) ==
  HeaderTruthy(contentType) /\ ~Includes(contentType, "text/html")

\* IsBlank without the trim: !textContent
IsBlank_NoTrim(textContent) == textContent = EmptyStr

\* !textContent.trim()
IsBlank(textContent) == Trim(textContent) = EmptyStr

\* PromptText without the length limit
PromptText_NoLimit(textContent) == textContent

\* textContent.substring(0, 4000)
PromptText(textContent) == Substring(textContent, 0, PromptLimit)

SummarizePrompt(textContent) ==
  [pre  |-> "Summarize the following text:\n\n",
   text |-> PromptText(textContent),
   post |-> ""]

\* what execute does once the body was read: the value it returns, or the
\* prompt it hands to generateText
AfterBody(response, htmlContent) ==
  IF response.header.kind = "throws"
  THEN [return |-> TRUE, value |-> FetchCatch(response.header.reason)]
  ELSE IF IsNotHtml(response.header)
  THEN [return |-> TRUE, value |-> ContentTypeError(response.header)]
  ELSE LET textContent == stripHtmlTags(htmlContent) IN
       IF IsBlank(textContent)
       THEN [return |-> TRUE, value |-> NoTextError]
       ELSE [return |-> FALSE, prompt |-> SummarizePrompt(textContent)]

\* typeof generationResult === 'string' ? generationResult : generationResult.text
\* (the property read throws on null)
AfterSummary(generationResult) ==
  IF generationResult.type = "string" THEN [summary |-> generationResult]
  ELSE IF generationResult.type = "null" THEN SummarizeCatch(NullReadTypeError)
  ELSE [summary |-> generationResult.text]

\* execute returns value
Return(value) ==
  /\ pc' = "done"
  /\ outcome' = "returned"
  /\ result' = value

\* const response = await fetch(url), the call
SummarizeStart ==
  /\ tool = "summarizeUrl" /\ pc = "start"
  /\ fetchCalls' = Append(fetchCalls, args.url)
  /\ fetchP' = PendingPromise
  /\ pc' = "awaitFetch"
  /\ UNCHANGED <<turnVars, tool, args, textP, modelP, modelCalls, outcome, result>>

\* FetchRejects with one retry of the fetch before giving up
FetchRejects_Retry(error) ==
  /\ tool = "summarizeUrl" /\ pc = "awaitFetch"
  /\ IF Len(fetchCalls) < 2
     THEN /\ fetchCalls' = Append(fetchCalls, args.url)
          /\ fetchP' = PendingPromise
          /\ UNCHANGED <<pc, outcome, result>>
     ELSE /\ fetchP' = Rejected(error)
          /\ Return(FetchCatch(error))
          /\ UNCHANGED fetchCalls
  /\ UNCHANGED <<turnVars, tool, args, textP, modelP, modelCalls>>

\* fetch rejects
FetchRejects(error) ==
  /\ tool = "summarizeUrl" /\ pc = "awaitFetch"
  /\ fetchP' = Rejected(error)
  /\ Return(FetchCatch(error))
  /\ UNCHANGED <<turnVars, tool, args, textP, modelP, fetchCalls, modelCalls>>

\* fetch resolves: the status check, then the call of response.text()
FetchResolves(response) ==
  /\ tool = "summarizeUrl" /\ pc = "awaitFetch"
  /\ fetchP' = Fulfilled(response)
  /\ IF ~response.ok
     THEN /\ Return(HttpStatusError(response.status))
          /\ UNCHANGED textP
     ELSE /\ textP' = PendingPromise
          /\ pc' = "awaitText"
          /\ UNCHANGED <<outcome, result>>
  /\ UNCHANGED <<turnVars, tool, args, modelP, fetchCalls, modelCalls>>

\* TextRejects with a catch that does not return: execute runs on to
\* stripHtmlTags(undefined) and rejects
TextRejects_NoReturn(error) ==
  /\ tool = "summarizeUrl" /\ pc = "awaitText"
  /\ textP' = Rejected(error)
  /\ pc' = "done"
  /\ outcome' = "rejected"
  /\ result' = [thrown |-> NullReadTypeError]
  /\ UNCHANGED <<turnVars, tool, args, fetchP, modelP, fetchCalls, modelCalls>>

\* response.text() rejects
TextRejects(error) ==
  /\ tool = "summarizeUrl" /\ pc = "awaitText"
  /\ textP' = Rejected(error)
  /\ Return(FetchCatch(error))
  /\ UNCHANGED <<turnVars, tool, args, fetchP, modelP, fetchCalls, modelCalls>>

\* response.text() resolves: header check, extraction, the call of
\* generateText
TextResolves(htmlContent) ==
  /\ tool = "summarizeUrl" /\ pc = "awaitText"
  /\ textP' = Fulfilled(htmlContent)
  /\ LET next == AfterBody(fetchP.value, htmlContent) IN
     IF next.return
     THEN /\ Return(next.value)
          /\ UNCHANGED <<modelP, modelCalls>>
     ELSE /\ modelCalls' = Append(modelCalls, next.prompt)
          /\ modelP' = PendingPromise
          /\ pc' = "awaitModel"
          /\ UNCHANGED <<outcome, result>>
  /\ UNCHANGED <<turnVars, tool, args, fetchP, fetchCalls>>

\* generateText rejects
SummaryRejects(error) ==
  /\ tool = "summarizeUrl" /\ pc = "awaitModel"
  /\ modelP' = Rejected(error)
  /\ Return(SummarizeCatch(error))
  /\ UNCHANGED <<turnVars, tool, args, fetchP, textP, fetchCalls, modelCalls>>

\* generateText resolves
SummaryResolves(generationResult) ==
  /\ tool = "summarizeUrl" /\ pc = "awaitModel"
  /\ modelP' = Fulfilled(generationResult)
  /\ Return(AfterSummary(generationResult))
  /\ UNCHANGED <<turnVars, tool, args, fetchP, textP, fetchCalls, modelCalls>>

(***************************************************************************)
(* translateText                                                           *)
(***************************************************************************)
TranslatePrompt(text, targetLanguage) ==
  [pre  |-> "Translate the following text to " \o targetLanguage \o ": \"",
   text |-> text,
   post |-> "\""]

\* the catch of execute
TranslateCatch(error) ==
  [error |-> "Translation failed due to an internal error: " \o
               (IF error.isError THEN error.message
                ELSE "An unknown error occurred")]

EchoError(targetLanguage) ==
  [error |-> "Translation to " \o targetLanguage \o
             " might have failed or returned original text. The language might be unsupported or the text too short/ambiguous."]

InvalidTranslationError(finishReason) ==
  [error |-> "Translation failed. AI model did not provide a valid translation. Reason: "
               \o finishReason]

\* IsValidTranslation without the finishReason test
IsValidTranslation_AnyReason(finishReason, translatedTextResponse) ==
  /\ Truthy(translatedTextResponse)
  /\ StrLen(Trim(translatedTextResponse.val)) > 0

\* IsValidTranslation testing the untrimmed text
IsValidTranslation_NoTrim(finishReason, translatedTextResponse) ==
  /\ finishReason = "stop"
  /\ Truthy(translatedTextResponse)

\* finishReason === 'stop' && translatedTextResponse
\*   && translatedTextResponse.trim().length > 0
IsValidTranslation(finishReason, translatedTextResponse) ==
  /\ finishReason = "stop"
  /\ Truthy(translatedTextResponse)
  /\ StrLen(Trim(translatedTextResponse.val)) > 0

\* IsEcho comparing case-sensitively
IsEcho_CaseSensitive(translatedTextResponse, text, targetLanguage) ==
  /\ Trim(translatedTextResponse) = Trim(text)
  /\ targetLanguage # "en"

\* IsEcho without the exemption of the source language
IsEcho_AnyLanguage(translatedTextResponse, text, targetLanguage) ==
  ToLowerCase(Trim(translatedTextResponse)) = ToLowerCase(Trim(text))

\* translatedTextResponse.trim().toLowerCase() === text.trim().toLowerCase()
\*   && targetLanguage !== 'en'
IsEcho(translatedTextResponse, text, targetLanguage) ==
  /\ ToLowerCase(Trim(translatedTextResponse)) = ToLowerCase(Trim(text))
  /\ targetLanguage # "en"

\* the body of the try once generateText resolved (destructuring null throws)
AfterTranslation(generationResult, text, targetLanguage) ==
  IF generationResult.type = "null" THEN TranslateCatch(NullReadTypeError)
  ELSE IF IsValidTranslation(generationResult.finishReason, generationResult.text)
  THEN IF IsEcho(generationResult.text.val, text, targetLanguage)
       THEN EchoError(targetLanguage)
       ELSE [translatedText |-> JsString(Trim(generationResult.text.val))]
  ELSE InvalidTranslationError(generationResult.finishReason)

\* the prompt is built and generateText is called
TranslateStart ==
  /\ tool = "translateText" /\ pc = "start"
  /\ modelCalls' = Append(modelCalls, TranslatePrompt(args.text, args.targetLanguage))
  /\ modelP' = PendingPromise
  /\ pc' = "awaitModel"
  /\ UNCHANGED <<turnVars, tool, args, fetchP, textP, fetchCalls, outcome, result>>

\* TranslationRejects with a catch that rethrows what is not an Error
TranslationRejects_Rethrow(error) ==
  /\ tool = "translateText" /\ pc = "awaitModel"
  /\ modelP' = Rejected(error)
  /\ IF error.isError
     THEN Return(TranslateCatch(error))
     ELSE /\ pc' = "done"
          /\ outcome' = "rejected"
          /\ result' = [thrown |-> error]
  /\ UNCHANGED <<turnVars, tool, args, fetchP, textP, fetchCalls, modelCalls>>

\* generateText rejects
TranslationRejects(error) ==
  /\ tool = "translateText" /\ pc = "awaitModel"
  /\ modelP' = Rejected(error)
  /\ Return(TranslateCatch(error))
  /\ UNCHANGED <<turnVars, tool, args, fetchP, textP, fetchCalls, modelCalls>>

\* generateText resolves
TranslationResolves(generationResult) ==
  /\ tool = "translateText" /\ pc = "awaitModel"
  /\ modelP' = Fulfilled(generationResult)
  /\ Return(AfterTranslation(generationResult, args.text, args.targetLanguage))
  /\ UNCHANGED <<turnVars, tool, args, fetchP, textP, fetchCalls, modelCalls>>

(***************************************************************************)
(* Input schemas                                                           *)
(***************************************************************************)
\* new URL(href), which z.string().url() relies on, for the hrefs of the
\* model: the protocol it finds, "" when it throws
UrlProtocol(href) ==
  CASE href = "https://example.com/article" -> "https:"
    [] href = "https://e2e.test/summarize-me" -> "https:"
    [] href = "not-a-valid-url" -> ""
    [] href = "/relative/path" -> ""
    [] OTHER -> ""

\* z.string().url()
IsUrl(href) == UrlProtocol(href) # ""

\* z.object({url: z.string().url()})
SummarizeSchema(input) == IsUrl(input.url)

\* the schema with targetLanguage: z.string().min(1)
TranslateSchema_MinOne(input) ==
  /\ StrLen(input.text) >= 1
  /\ Len(input.targetLanguage) >= 1

\* z.object({text: z.string().min(1), targetLanguage: z.string().min(2)})
TranslateSchema(input) ==
  /\ StrLen(input.text) >= 1
  /\ Len(input.targetLanguage) >= 2

\* parameters.safeParse(input).success
SafeParse(toolName, input) ==
  IF toolName = "summarizeUrl" THEN SummarizeSchema(input)
  ELSE TranslateSchema(input)

(***************************************************************************)
(* Tool invocations of a turn                                              *)
(***************************************************************************)
CallIds == 1..MaxCalls

\* the part streamed when the model calls a tool
CallPart(id, toolName, input) ==
  [type |-> "tool-invocation", toolName |-> toolName, toolCallId |-> id,
   args |-> input, state |-> "call"]

\* ResultPart with a call id computed anew instead of the call's own
ResultPart_NewId(id, toolName, input, value) ==
  [type |-> "tool-invocation", toolName |-> toolName, toolCallId |-> id + 1,
   args |-> input, state |-> "result", result |-> value]

\* the part streamed with the outcome of the call
ResultPart(id, toolName, input, value) ==
  [type |-> "tool-invocation", toolName |-> toolName, toolCallId |-> id,
   args |-> input, state |-> "result", result |-> value]

\* a call id that was not used, and a call whose input failed the schema
NoInvocation == [state |-> "none"]

InvalidInvocation(id, toolName, input) ==
  [toolName |-> toolName, toolCallId |-> id, args |-> input, state |-> "invalid"]

NoArgs == [none |-> TRUE]

\* an execution as a value: what is kept of it while another one runs
IdleCtx ==
  [tool |-> "none", args |-> NoArgs, pc |-> "idle",
   fetchP |-> NoPromise, textP |-> NoPromise, modelP |-> NoPromise,
   fetchCalls |-> <<>>, modelCalls |-> <<>>,
   outcome |-> "pending", result |-> NoResult]

StartCtx(toolName, input) ==
  [IdleCtx EXCEPT !.tool = toolName, !.args = input, !.pc = "start"]

RunningCtx ==
  [tool |-> tool, args |-> args, pc |-> pc,
   fetchP |-> fetchP, textP |-> textP, modelP |-> modelP,
   fetchCalls |-> fetchCalls, modelCalls |-> modelCalls,
   outcome |-> outcome, result |-> result]

\* the execution of call id, running or suspended
Ctx(id) == IF id = cur THEN RunningCtx ELSE parked[id]

\* the execution variables take the values of ctx
Load(ctx) ==
  /\ tool' = ctx.tool
  /\ args' = ctx.args
  /\ pc' = ctx.pc
  /\ fetchP' = ctx.fetchP
  /\ textP' = ctx.textP
  /\ modelP' = ctx.modelP
  /\ fetchCalls' = ctx.fetchCalls
  /\ modelCalls' = ctx.modelCalls
  /\ outcome' = ctx.outcome
  /\ result' = ctx.result

\* the next call id: ids are handed out once, in order
FreshId == CHOOSE id \in CallIds :
             /\ invocations[id].state = "none"
             /\ \A j \in CallIds : j < id => invocations[j].state # "none"

\* the model calls a tool: the input is validated against the tool's
\* schema; a valid call becomes a pending invocation whose execute is
\* scheduled, an invalid one never reaches execute
Invoke(toolName, input) ==
  /\ \E id \in CallIds : invocations[id].state = "none"
  /\ LET id == FreshId IN
     IF SafeParse(toolName, input)
     THEN /\ invocations' = [invocations EXCEPT ![id] = CallPart(id, toolName, input)]
          /\ stream' = Append(stream, CallPart(id, toolName, input))
          /\ parked' = [parked EXCEPT ![id] = StartCtx(toolName, input)]
     ELSE /\ invocations' = [invocations EXCEPT ![id] = InvalidInvocation(id, toolName, input)]
          /\ UNCHANGED <<stream, parked>>
  /\ UNCHANGED <<execVars, cur, views, selectedLanguage, availableLanguages>>

\* the event loop turns to the execution of another call, the running one
\* staying suspended at its await
Resume(id) ==
  /\ id # cur
  /\ parked[id].pc \notin {"idle", "done"}
  /\ Load(parked[id])
  /\ cur' = id
  /\ parked' = [j \in CallIds |->
                  IF j = id THEN IdleCtx
                  ELSE IF j = cur THEN RunningCtx
                  ELSE parked[j]]
  /\ UNCHANGED <<invocations, stream, views, selectedLanguage, availableLanguages>>

\* execute of call id has returned: its invocation goes to the result state
\* and the result part is streamed
ToolResult(id) ==
  /\ invocations[id].state = "call"
  /\ Ctx(id).pc = "done" /\ Ctx(id).outcome = "returned"
  /\ LET part == ResultPart(id, invocations[id].toolName, invocations[id].args,
                            Ctx(id).result) IN
     /\ invocations' = [invocations EXCEPT ![id] = part]
     /\ stream' = Append(stream, part)
  /\ UNCHANGED <<execVars, cur, parked, views, selectedLanguage, availableLanguages>>

(***************************************************************************)
(* SummarizeUrlDisplay                                                     *)
(***************************************************************************)
NoView == [rendered |-> FALSE]

\* the component: the url line, then {result.summary && ...} and
\* {result.error && ...}; a block that is not rendered is <<>>
SummarizeUrlDisplay(props) ==
  [rendered |-> TRUE,
   url      |-> IF "url" \in DOMAIN props.args /\ props.args.url # ""
                THEN props.args.url ELSE "Unknown URL",
   summary  |-> IF "summary" \in DOMAIN props.result /\ Truthy(props.result.summary)
                THEN <<props.result.summary.val>> ELSE <<>>,
   error    |-> IF "error" \in DOMAIN props.result /\ props.result.error # ""
                THEN <<"Error summarizing URL:", props.result.error>> ELSE <<>>]

\* the client renders the result of a summarizeUrl invocation
Render(id) ==
  /\ invocations[id].state = "result"
  /\ invocations[id].toolName = "summarizeUrl"
  /\ views[id] = NoView
  /\ views' = [views EXCEPT ![id] =
                 SummarizeUrlDisplay([args |-> invocations[id].args,
                                      result |-> invocations[id].result])]
  /\ UNCHANGED <<execVars, cur, parked, invocations, stream, selectedLanguage,
                 availableLanguages>>

(***************************************************************************)
(* LanguageProvider                                                        *)
(***************************************************************************)
defaultLanguages ==
  << [code |-> "en", name |-> "English"],
     [code |-> "es", name |-> "Spanish"],
     [code |-> "fr", name |-> "French"],
     [code |-> "de", name |-> "German"],
     [code |-> "ja", name |-> "Japanese"],
     [code |-> "ko", name |-> "Korean"] >>

\* a provider whose default language is Spanish
defaultLanguage_Spanish == "es"

defaultLanguage == "en"

\* the languages the user picks in the model
PickedLanguages == {"en", "es"}

\* the setter of useState<string>(defaultLanguage)
setSelectedLanguage(language) ==
  /\ selectedLanguage # language
  /\ selectedLanguage' = language
  /\ UNCHANGED <<execVars, cur, parked, invocations, stream, views, availableLanguages>>

(***************************************************************************)
(* Specification                                                           *)
(***************************************************************************)
\* inputs that pass the tools' schemas: a url; a text of at least one
\* character and a target language of at least two
SummarizeArgs == {[url |-> u] : u \in Urls}

TranslateArgs ==
  {[text |-> t, targetLanguage |-> l] : t \in Texts \ {EmptyStr}, l \in Languages}

Init ==
  /\ \/ tool = "summarizeUrl" /\ args \in SummarizeArgs
     \/ tool = "translateText" /\ args \in TranslateArgs
  /\ pc = "start"
  /\ fetchP = NoPromise
  /\ textP = NoPromise
  /\ modelP = NoPromise
  /\ fetchCalls = <<>>
  /\ modelCalls = <<>>
  /\ outcome = "pending"
  /\ result = NoResult
  /\ cur = 1
  /\ parked = [id \in CallIds |-> IdleCtx]
  /\ invocations = [id \in CallIds |->
                      IF id = 1 THEN CallPart(1, tool, args) ELSE NoInvocation]
  /\ stream = <<CallPart(1, tool, args)>>
  /\ views = [id \in CallIds |-> NoView]
  /\ selectedLanguage = defaultLanguage
  /\ availableLanguages = defaultLanguages

Next ==
  \/ SummarizeStart
  \/ \E error \in Thrown : FetchRejects(error)
  \/ \E response \in Responses : FetchResolves(response)
  \/ \E error \in Thrown : TextRejects(error)
  \/ \E htmlContent \in Bodies : TextResolves(htmlContent)
  \/ \E error \in Thrown : SummaryRejects(error)
  \/ \E generationResult \in SummaryResults : SummaryResolves(generationResult)
  \/ TranslateStart
  \/ \E error \in Thrown : TranslationRejects(error)
  \/ \E generationResult \in TranslationResults : TranslationResolves(generationResult)

\* one execution of one tool against every answer of the environment
Spec == Init /\ [][Next]_vars

\* page bodies of at most one run: markup only, blank, text, short and long
CallBodies == {htmlContent \in Bodies : Len(htmlContent) <= 1}

CallNext ==
  \/ SummarizeStart
  \/ \E error \in Thrown : FetchRejects(error)
  \/ \E response \in Responses : FetchResolves(response)
  \/ \E error \in Thrown : TextRejects(error)
  \/ \E htmlContent \in CallBodies : TextResolves(htmlContent)
  \/ \E error \in Thrown : SummaryRejects(error)
  \/ \E generationResult \in SummaryResults : SummaryResolves(generationResult)
  \/ TranslateStart
  \/ \E error \in Thrown : TranslationRejects(error)
  \/ \E generationResult \in TranslationResults : TranslationResolves(generationResult)
  \/ \E id \in CallIds : ToolResult(id)
  \/ \E id \in CallIds : Render(id)

\* one call of one tool, from the pending invocation through the execution
\* to the streamed and rendered result
CallSpec == Init /\ [][CallNext]_vars

\* the same, every awaited call settling and every continuation running
FairSpec == CallSpec /\ WF_vars(CallNext)

(***************************************************************************)
(* A turn with several tool calls                                          *)
(***************************************************************************)
\* what the model passes to the tools, valid or not
TurnHrefs == {"https://e2e.test/summarize-me", "not-a-valid-url"}

TurnInputs(toolName) ==
  IF toolName = "summarizeUrl"
  THEN {[url |-> h] : h \in TurnHrefs}
  ELSE {[text |-> t, targetLanguage |-> l] :
          t \in {EmptyStr, <<Run("a", 1)>>}, l \in {"e", "es"}}

\* what the environment answers in a turn
TurnThrown == {ErrorOf("Network connection failed")}

TurnResponses ==
  { r \in Responses :
      /\ r.status \in {200, 404}
      /\ r.header = HeaderValue(<<"text/html">>) }

TurnBodies == {<<Run("a", 1)>>}

TurnSummaryResults == {[type |-> "object", text |-> JsString(<<Run("a", 1)>>)]}

TurnTranslationResults ==
  {[type |-> "object", text |-> JsString(<<Run("A", 1)>>), finishReason |-> r] :
      r \in {"stop", "length"}}

TurnInit ==
  /\ tool = IdleCtx.tool
  /\ args = IdleCtx.args
  /\ pc = IdleCtx.pc
  /\ fetchP = IdleCtx.fetchP
  /\ textP = IdleCtx.textP
  /\ modelP = IdleCtx.modelP
  /\ fetchCalls = IdleCtx.fetchCalls
  /\ modelCalls = IdleCtx.modelCalls
  /\ outcome = IdleCtx.outcome
  /\ result = IdleCtx.result
  /\ cur = 0
  /\ parked = [id \in CallIds |-> IdleCtx]
  /\ invocations = [id \in CallIds |-> NoInvocation]
  /\ stream = <<>>
  /\ views = [id \in CallIds |-> NoView]
  /\ selectedLanguage = defaultLanguage
  /\ availableLanguages = defaultLanguages

TurnNext ==
  \/ \E toolName \in {"summarizeUrl", "translateText"} :
       \E input \in TurnInputs(toolName) : Invoke(toolName, input)
  \/ \E id \in CallIds : Resume(id)
  \/ SummarizeStart
  \/ \E error \in TurnThrown : FetchRejects(error)
  \/ \E response \in TurnResponses : FetchResolves(response)
  \/ \E error \in TurnThrown : TextRejects(error)
  \/ \E htmlContent \in TurnBodies : TextResolves(htmlContent)
  \/ \E error \in TurnThrown : SummaryRejects(error)
  \/ \E generationResult \in TurnSummaryResults : SummaryResolves(generationResult)
  \/ TranslateStart
  \/ \E error \in TurnThrown : TranslationRejects(error)
  \/ \E generationResult \in TurnTranslationResults : TranslationResolves(generationResult)
  \/ \E id \in CallIds : ToolResult(id)
  \/ \E id \in CallIds : Render(id)
  \/ \E language \in PickedLanguages : setSelectedLanguage(language)

\* a turn in which the model calls tools, their executions interleave at
\* the awaits, and the user changes the language
TurnSpec == TurnInit /\ [][TurnNext]_vars

(***************************************************************************)
(* Properties                                                              *)
(***************************************************************************)
Summarizing == tool = "summarizeUrl"
Translating == tool = "translateText"

\* execute has returned
Returned == pc = "done" /\ outcome = "returned"

\* the fetch resolved with a 2xx response
FetchedOk == fetchP.state = "fulfilled" /\ fetchP.value.ok

\* a field of the result holds a value
SummaryPopulated == "summary" \in DOMAIN result /\ result.summary.type = "string"
ErrorPopulated == "error" \in DOMAIN result /\ result.error \in STRING

\* s is t cut after some character
PrefixOf(s, t) == Norm(s \o Drop(t, StrLen(s))) = t

Min(a, b) == IF a <= b THEN a ELSE b

UpperChar(ch) == IF ch = "a" THEN "A" ELSE IF ch = "b" THEN "B" ELSE ch

ToUpperCase(s) == Norm([i \in 1..Len(s) |-> Run(UpperChar(s[i].c), s[i].n)])

EqualIgnoringCase(s, t) == ToUpperCase(s) = ToUpperCase(t)

\* C1: every result summarizeUrl.execute returns has exactly one of
\* summary / error populated.
C1_ExactlyOneOfSummaryError ==
  (Summarizing /\ Returned) => (SummaryPopulated /= ErrorPopulated)

\* an awaited collaborator threw, or the model resolved with null
CollaboratorFailed ==
  \/ fetchP.state = "rejected"
  \/ textP.state = "rejected"
  \/ /\ FetchedOk /\ textP.state = "fulfilled"
     /\ fetchP.value.header.kind = "throws"
  \/ modelP.state = "rejected"
  \/ modelP.state = "fulfilled" /\ modelP.value = JsNull

\* C2: no failure of the fetch, the body read, the header read or the model
\* call leaves a tool: execute never rejects, and after such a failure it
\* has returned a value that is exactly {error: <string>}.
C2_NoFailurePropagates ==
  /\ outcome # "rejected"
  /\ CollaboratorFailed =>
       (Returned /\ DOMAIN result = {"error"} /\ result.error \in STRING)

\* C2 witness: the model call threw a value that is not an Error and
\* translateText returned its error result
C2_Witness ==
  /\ Translating /\ Returned
  /\ modelP = Rejected(NonError)
  /\ result = [error |-> "Translation failed due to an internal error: An unknown error occurred"]

\* C3: a fetch that resolves with a non-2xx status c makes execute return
\* exactly {error: "Failed to fetch page: HTTP status c"}, whatever the
\* headers are, without reading the body and without a model call.
C3_HttpStatusError ==
  (fetchP.state = "fulfilled" /\ ~fetchP.value.ok) =>
    /\ Returned
    /\ result = [error |-> "Failed to fetch page: HTTP status "
                             \o ToString(fetchP.value.status)]
    /\ textP = NoPromise
    /\ modelCalls = <<>>

\* C3 witness: status 404 with a JSON content type
C3_Witness ==
  /\ fetchP.state = "fulfilled"
  /\ fetchP.value.status = 404
  /\ fetchP.value.header = HeaderValue(<<"application/json">>)
  /\ result = [error |-> "Failed to fetch page: HTTP status 404"]

\* C4: a 2xx response whose Content-Type is present and is not HTML makes
\* execute return exactly {error: "Content is not HTML (type: t). Cannot
\* summarize."} without a model call, whether or not the body read succeeds.
\* (A header with an empty value names no type and is left out.)
C4_ContentTypeError ==
  ( /\ Summarizing /\ pc = "done"
    /\ FetchedOk
    /\ fetchP.value.header.kind = "value"
    /\ ~fetchP.value.header.isNull
    /\ fetchP.value.header.tokens # <<>>
    /\ ~Includes(fetchP.value.header, "text/html") ) =>
    /\ Returned
    /\ result = [error |-> "Content is not HTML (type: "
                             \o Join(fetchP.value.header.tokens)
                             \o "). Cannot summarize."]
    /\ modelCalls = <<>>

C6_NetworkError ==
  (fetchP.state = "rejected" /\ fetchP.reason.isError) =>
    /\ Returned
    /\ result = [error |-> "Network error when fetching the page: "
                             \o fetchP.reason.message]
    /\ modelP = NoPromise
    /\ modelCalls = <<>>

\* C6 witness: fetch rejected with Error("Network connection failed")
C6_Witness ==
  /\ fetchP = Rejected(ErrorOf("Network connection failed"))
  /\ result = [error |-> "Network error when fetching the page: Network connection failed"]

\* C7: an execution never repeats an external call: summarizeUrl fetches
\* its url exactly once and calls the model at most once, and only after
\* the fetch resolved with a 2xx response and the body was read;
\* translateText calls the model exactly once and never fetches; an
\* execution that ended after a failure holds no further call.
C7_NoRepeatedCalls ==
  /\ (Summarizing /\ pc = "start") => (fetchCalls = <<>> /\ modelCalls = <<>>)
  /\ (Summarizing /\ pc # "start") => fetchCalls = <<args.url>>
  /\ Summarizing => Len(modelCalls) <= 1
  /\ (Summarizing /\ modelCalls # <<>>) =>
       (FetchedOk /\ textP.state = "fulfilled")
  /\ (Summarizing /\ (fetchP.state = "rejected" \/ textP.state = "rejected")) =>
       modelCalls = <<>>
  /\ Translating => fetchCalls = <<>>
  /\ (Translating /\ pc = "start") => modelCalls = <<>>
  /\ (Translating /\ pc # "start") => Len(modelCalls) = 1

\* C7 witness: summarizeUrl ended on a model failure after one fetch and
\* one model call
C7_Witness ==
  /\ Summarizing /\ Returned
  /\ modelP.state = "rejected"
  /\ "error" \in DOMAIN result
  /\ Len(fetchCalls) = 1 /\ Len(modelCalls) = 1

TranslationResolved ==
  Translating /\ pc = "done" /\ modelP.state = "fulfilled" /\ modelP.value # JsNull

\* the model's text holds something after trimming
NonBlankText(v) == v.type = "string" /\ HasNonWhiteSpace(v.val)

\* C9: translateText returns {translatedText} only if the completion
\* finished with "stop" and its text is non-empty after trimming; in every
\* other case where the model resolved it returns exactly {error:
\* "Translation failed. AI model did not provide a valid translation.
\* Reason: r"} for the finishReason r.
C9_ValidTranslationOnly ==
  TranslationResolved =>
    LET r == modelP.value.finishReason
        valid == r = "stop" /\ NonBlankText(modelP.value.text)
    IN /\ Returned
       /\ "translatedText" \in DOMAIN result => valid
       /\ ~valid =>
            result = [error |-> "Translation failed. AI model did not provide a valid translation. Reason: " \o r]

\* C9 witness: a non-blank text cut at the token limit
C9_Witness ==
  /\ TranslationResolved
  /\ modelP.value.finishReason = "length"
  /\ NonBlankText(modelP.value.text)
  /\ result = [error |-> "Translation failed. AI model did not provide a valid translation. Reason: length"]

\* the completion finished with "stop", its trimmed text equals the trimmed
\* input ignoring case, and the target language is not "en"
EchoedInput ==
  /\ TranslationResolved
  /\ modelP.value.finishReason = "stop"
  /\ modelP.value.text.type = "string"
  /\ EqualIgnoringCase(Trim(modelP.value.text.val), Trim(args.text))
  /\ args.targetLanguage # "en"

HeuristicError ==
  result = [error |-> "Translation to " \o args.targetLanguage \o
                      " might have failed or returned original text. The language might be unsupported or the text too short/ambiguous."]

\* C10 as stated: whenever the model echoes the input (trimmed, ignoring
\* case) for a target other than "en", the result is the heuristic-failure
\* error naming the target language.
C10_Original ==
  EchoedInput => (Returned /\ HeuristicError)

\* C10: whenever the model echoes the input (trimmed, ignoring case) for a
\* target other than "en" and the trimmed text is not empty, the result is
\* the heuristic-failure error naming the target language; an echo, empty
\* after trimming or not, is never returned as a {translatedText}.
C10_EchoIsAnError ==
  EchoedInput =>
    /\ Returned
    /\ "translatedText" \notin DOMAIN result
    /\ HasNonWhiteSpace(modelP.value.text.val) => HeuristicError

\* C10 witness: input "a " echoed as "A" for target "es"
C10_Witness ==
  /\ EchoedInput
  /\ args = [text |-> <<Run("a", 1), Run(" ", 1)>>, targetLanguage |-> "es"]
  /\ modelP.value.text = JsString(<<Run("A", 1)>>)
  /\ result = [error |-> "Translation to es might have failed or returned original text. The language might be unsupported or the text too short/ambiguous."]


\* the target is the source language "en" and the model, finishing with
\* "stop", answered the very text execute was given
EchoedToEnglish ==
  /\ TranslationResolved
  /\ args.targetLanguage = "en"
  /\ modelP.value.finishReason = "stop"
  /\ modelP.value.text = JsString(args.text)

\* C11 as stated: for target "en" and a model that echoes the input,
\* execute returns {translatedText: text} with text the input it was given,
\* for every valid input.
C11_Original ==
  EchoedToEnglish =>
    (Returned /\ result = [translatedText |-> JsString(args.text)])

\* C11: for target "en" and a model that echoes the input, execute returns
\* {translatedText: t} with t the input without its leading and trailing
\* whitespace (the input itself when it has none), and no error, provided
\* the input is not whitespace only; a whitespace-only input gives the
\* "did not provide a valid translation. Reason: stop" error.
C11_EchoToEnglishIsTrimmedInput ==
  EchoedToEnglish =>
    /\ Returned
    /\ HasNonWhiteSpace(args.text) =>
         /\ DOMAIN result = {"translatedText"}
         /\ result.translatedText.type = "string"
         /\ result.translatedText.val = TrimEnd(TrimStart(args.text))
         /\ (args.text[1].c \notin WhiteSpace /\ args.text[Len(args.text)].c \notin WhiteSpace)
              => result.translatedText.val = args.text
    /\ ~HasNonWhiteSpace(args.text) =>
         result = [error |-> "Translation failed. AI model did not provide a valid translation. Reason: stop"]

\* C11 witness: the input " a" echoed for target "en" comes back as "a"
C11_Witness ==
  /\ EchoedToEnglish
  /\ args.text = <<Run(" ", 1), Run("a", 1)>>
  /\ result = [translatedText |-> JsString(<<Run("a", 1)>>)]

\* a field of a translateText result holds a string
TranslatedTextPopulated ==
  "translatedText" \in DOMAIN result /\ result.translatedText.type = "string"

\* C12: every result translateText.execute returns has exactly one of
\* translatedText / error populated, and a translatedText is a non-empty
\* string.
C12_ExactlyOneOfTranslatedTextError ==
  (Translating /\ pc = "done") =>
    /\ Returned
    /\ TranslatedTextPopulated /= ErrorPopulated
    /\ DOMAIN result \in {{"translatedText"}, {"error"}}
    /\ "translatedText" \in DOMAIN result =>
         (result.translatedText.type = "string" /\ StrLen(result.translatedText.val) >= 1)

\* C12 witness: the model text "A " comes back as the translation "A"
C12_Witness ==
  /\ TranslationResolved
  /\ modelP.value.text = JsString(<<Run("A", 1), Run(" ", 1)>>)
  /\ result = [translatedText |-> JsString(<<Run("A", 1)>>)]


\* the input fails the schema of the tool: an empty text, a target language
\* of less than two characters, a url that is not an absolute url
FailsSchema(toolName, input) ==
  IF toolName = "translateText"
  THEN input.text = <<>> \/ input.targetLanguage \in {"", "e"}
  ELSE input.url \notin {"https://example.com/article", "https://e2e.test/summarize-me"}

\* C13: execute never runs on input that fails the tool's schema: such a
\* call is rejected at validation, it never becomes a pending invocation,
\* and no fetch and no model call is issued for it.
C13_InvalidInputNeverExecutes ==
  \A id \in CallIds :
    /\ (invocations[id].state # "none"
          /\ FailsSchema(invocations[id].toolName, invocations[id].args)) =>
         /\ invocations[id].state = "invalid"
         /\ Ctx(id) = IdleCtx
         /\ \A i \in 1..Len(stream) : stream[i].toolCallId # id
    /\ Ctx(id).pc # "idle" =>
         /\ ~FailsSchema(Ctx(id).tool, Ctx(id).args)
         /\ invocations[id].state \in {"call", "result"}
    /\ invocations[id].state \in {"none", "invalid"} =>
         (cur # id /\ parked[id].fetchCalls = <<>> /\ parked[id].modelCalls = <<>>)
    /\ cur = 0 => RunningCtx = IdleCtx

\* C13 witness: a call with the one-letter target "e" was rejected while
\* the next call of the turn ran to its result
C13_Witness ==
  /\ invocations[1].state = "invalid"
  /\ invocations[1].toolName = "translateText"
  /\ invocations[1].args = [text |-> <<Run("a", 1)>>, targetLanguage |-> "e"]
  /\ invocations[2].state = "result"

\* C14: for every result summarizeUrl can produce, SummarizeUrlDisplay
\* renders exactly one of the two views: the summary text for a success,
\* "Error summarizing URL:" and the message for a failure; it shows the url
\* of the args and leaves the invocation as it was.
C14_ExactlyOneView ==
  \A id \in CallIds :
    views[id].rendered =>
      LET inv == invocations[id] IN
      /\ inv.state = "result"
      /\ views[id].url = inv.args.url
      /\ (views[id].summary = <<>>) /= (views[id].error = <<>>)
      /\ "summary" \in DOMAIN inv.result =>
           (inv.result.summary.type = "string"
              /\ views[id].summary = <<inv.result.summary.val>>)
      /\ "error" \in DOMAIN inv.result =>
           views[id].error = <<"Error summarizing URL:", inv.result.error>>

\* the parts of the stream that belong to call id, in order
RECURSIVE PartsOf(_, _)
PartsOf(s, id) ==
  IF s = <<>> THEN <<>>
  ELSE IF Head(s).toolCallId = id
       THEN <<Head(s).state>> \o PartsOf(Tail(s), id)
       ELSE PartsOf(Tail(s), id)

\* C15: in every interleaving of the tool calls of a turn, each call id is
\* seen pending (state "call", no result) before its result, goes to the
\* result state at most once, and is never used for another call.
C15_PendingBeforeResult ==
  /\ \A i \in 1..Len(stream) : stream[i].toolCallId \in CallIds
  /\ \A id \in CallIds :
       /\ PartsOf(stream, id) \in {<<>>, <<"call">>, <<"call", "result">>}
       /\ invocations[id].state = "call" => PartsOf(stream, id) = <<"call">>
       /\ invocations[id].state = "result" => PartsOf(stream, id) = <<"call", "result">>
       /\ invocations[id].state \in {"none", "invalid"} => PartsOf(stream, id) = <<>>
       /\ invocations[id].state # "none" => invocations[id].toolCallId = id
       /\ \A i, j \in 1..Len(stream) :
            (stream[i].toolCallId = id /\ stream[j].toolCallId = id) =>
              (stream[i].toolName = stream[j].toolName /\ stream[i].args = stream[j].args)
  /\ \A i \in 1..Len(stream) :
       ("result" \in DOMAIN stream[i]) <=> (stream[i].state = "result")

\* C15 witness: two calls were pending together and the second one's
\* result came first
C15_Witness ==
  /\ Len(stream) = 4
  /\ stream[1].toolCallId = 1 /\ stream[1].state = "call"
  /\ stream[2].toolCallId = 2 /\ stream[2].state = "call"
  /\ stream[3].toolCallId = 2 /\ stream[3].state = "result"
  /\ stream[4].toolCallId = 1 /\ stream[4].state = "result"

\* C16: every external call settling, a started execution returns a result
\* and its invocation leaves the pending state, with exactly one result.
C16_RunsToCompletion ==
  /\ (invocations[1].state = "call")
       ~> (Returned /\ invocations[1].state = "result"
             /\ invocations[1].result = result)
  /\ [](Len(PartsOf(stream, 1)) <= 2)
  /\ [][invocations[1].state = "result" => invocations'[1] = invocations[1]]_vars

\* C16 witness: the invocation carries the summary of an execution that
\* went through all three awaits
C16_Witness ==
  /\ Summarizing /\ Returned
  /\ modelP.state = "fulfilled"
  /\ invocations[1].state = "result"
  /\ invocations[1].result = result
  /\ "summary" \in DOMAIN result

\* C17: the selection starts as "en"; the list of languages never changes;
\* a step that changes the selection is no step of a tool execution or of
\* the turn; and a step of the running execution changes neither the
\* suspended executions nor the language store.
C17_SelectionOnlyBySetter ==
  /\ selectedLanguage = "en"
  /\ [][ /\ availableLanguages' = availableLanguages
         /\ selectedLanguage' # selectedLanguage =>
              UNCHANGED <<execVars, cur, parked, invocations, stream, views>>
         /\ (execVars' # execVars /\ cur' = cur) =>
              UNCHANGED <<parked, selectedLanguage, availableLanguages>>
       ]_vars

\* C17 witness: the user picked Spanish while one execution awaits the
\* model and another one is suspended at its fetch
C17_Witness ==
  /\ selectedLanguage = "es"
  /\ cur = 1 /\ pc = "awaitModel"
  /\ parked[2].pc = "awaitFetch"
  /\ availableLanguages = defaultLanguages

\* C18: whenever summarizeUrl calls the model, the page text in the prompt
\* holds a character that is not whitespace.
C18_PromptHasText ==
  (Summarizing /\ modelCalls # <<>>) =>
    \E i \in 1..Len(modelCalls[1].text) : modelCalls[1].text[i].c \notin {" ", "\n"}

====
